---- MODULE Spec2Model ----
(***************************************************************************)
(* A model of the dag-designer program: the graph store (dag_builder.py),  *)
(* the dependency resolver (dependency_resolver.py) and the executor       *)
(* (executor.py), as driven by the request handlers of app.py.             *)
(*                                                                         *)
(* Node ids are strings in the program ("1", "2", ...); the model writes   *)
(* them as the numbers 1..3.  The networkx DiGraph keeps its nodes and the *)
(* successors of each node in insertion order, so the graph is a sequence  *)
(* of nodes and, per node, a sequence of successors.                       *)
(***************************************************************************)
EXTENDS Integers, Sequences, FiniteSets, Bags, TLC

\* ---------------------------------------------------------------- inputs
\* The ids a request may name.
NodeIds == {1, 2, 3}

\* The largest retry_attempts a run is started with (the default is 3).
MaxBudget == 3

\* The requests that arrive in one behaviour of the threaded server.
MaxRequests == 3

\* Client(n_workers=4, threads_per_worker=1): at most 4 attempts run at once.
NWorkers == 4

\* The value Client.retry returns (Python's None), used as a dict key and a
\* list element by execute_operations.
NoneKey == 0

\* function_registry: node type -> ordered list of required parameter names
\* (the operation function itself is an opaque unit).
function_registry ==
    [ADD |-> <<"columns", "value">>,
     SMA |-> <<"window_size", "column">>,
     ADX |-> <<"high", "low", "close", "time_period">>]

RegisteredTypes == DOMAIN function_registry

\* get_operation_function: TRUE iff the lookup succeeds (else ValueError).
get_operation_function(node_type) == node_type \in RegisteredTypes

\* The node types a request may carry: two registered ones and one not.
InputTypes == {"ADD", "SMA", "UNSUPPORTED_TYPE"}

\* One entry of a parameter list: a single-key dict {k: v}; t is the Python
\* type of v ("str" or "num").
Param(k, t, v) == [k |-> k, t |-> t, v |-> v]

\* The parameter lists a request may carry.
InputParams ==
    { <<>>,
      <<Param("value", "num", "5")>>,
      <<Param("column", "str", "x"), Param("value", "num", "5")>>,
      <<Param("window_size", "num", "5")>> }

\* ------------------------------------------------------------- the state
VARIABLES
    nodes,      \* graph nodes, in insertion order
    ntype,      \* node -> its 'type' attribute ("" when the node is absent)
    nparams,    \* node -> its 'parameters' attribute (internal representation)
    succ,       \* node -> its successors, in insertion order
    result,     \* outcome of the last call: "ok" or the error it raised
    plan,       \* last outcome of resolve_dependencies
    budget,     \* retry_attempts of the run
    pc,         \* position of execute_operations
    client,     \* the dask Client: "none", "open", "closed"
    fstate,     \* node -> state of its future / task
    attempts,   \* node -> number of attempts started
    fails,      \* node -> number of attempts that raised
    all_futures,                \* the list all_futures
    operation_retry_attempts,   \* the dict operation_retry_attempts
    waiting,    \* futures the current as_completed has not yielded yet
    recorded,   \* node -> times its success was recorded by the loop
    interrupted,\* attempts that were running when the client shut down
    runError,   \* the exception execute_operations raised, if any
    handling,   \* the future client.retry was called for and has not
                \* returned for yet (NoneKey when there is none)
    file,       \* the file written by save_to_file, if any
    requests,   \* threaded server: the requests in the middle of a change
                \* of the graph, and how many requests have arrived
    layout,     \* threaded server: the entry tables of the graph's dicts
                \* (see DictInsert); a call that runs alone does not
                \* depend on them and leaves them as they are
    resolver,   \* local state of a resolve_dependencies call in progress
    exec        \* outcome of a direct execute_node call

storeVars == <<nodes, ntype, nparams, succ, result, plan>>
runVars == <<budget, pc, client, fstate, attempts, fails, all_futures,
             operation_retry_attempts, waiting, recorded, interrupted, runError,
             handling>>
auxVars == <<file, requests, layout, resolver, exec>>
vars == <<nodes, ntype, nparams, succ, result, plan, budget, pc, client,
          fstate, attempts, fails, all_futures, operation_retry_attempts,
          waiting, recorded, interrupted, runError, handling, file, requests,
          layout,
          resolver, exec>>

\* ------------------------------------------------------ sequence helpers
RECURSIVE SeqFilterOut(_, _)
SeqFilterOut(s, x) ==
    IF s = <<>> THEN <<>>
    ELSE IF Head(s) = x THEN SeqFilterOut(Tail(s), x)
         ELSE <<Head(s)>> \o SeqFilterOut(Tail(s), x)

\* list.remove(x): drops the first occurrence of x.
RECURSIVE ListRemove(_, _)
ListRemove(s, x) ==
    IF s = <<>> THEN <<>>
    ELSE IF Head(s) = x THEN Tail(s)
         ELSE <<Head(s)>> \o ListRemove(Tail(s), x)

Range(s) == {s[i] : i \in 1..Len(s)}

\* ------------------------------------------------------------ the graph
\* A stored 'parameters' dict: the keys it has, the list under "columns" and
\* the scalar under "value" (meaningful only when the key is present).
NoParams == [keys |-> {}, columns |-> <<>>, value |-> [t |-> "none", v |-> ""]]

\* No file written, no request of the threaded server arrived, no
\* resolve_dependencies call in progress, no direct execute_node call made.
NoFile == [status |-> "none", nodes |-> <<>>, edges |-> <<>>]
NoRequests == [inflight |-> EmptyBag, started |-> 0]
ResolverIdle ==
    [pc |-> "idle", queue |-> <<>>, indegree_map |-> [n \in NodeIds |-> 0],
     keys |-> {}, execution_plan |-> <<>>, visited |-> {},
     node |-> NoneKey, it_used |-> 0, it_pos |-> 0, it_len |-> 0,
     detached |-> FALSE, it_orphan |-> <<>>,
     snapNodes |-> <<>>, snapSucc |-> [n \in NodeIds |-> <<>>]]
NoNodeData == [type |-> "", hasParameters |-> FALSE, parameters |-> <<>>]
ExecIdle ==
    [node_data |-> NoNodeData, status |-> "none", missing |-> <<>>,
     calls |-> <<>>]

InGraph(n) == n \in Range(nodes)

Edges(s) == {e \in NodeIds \X NodeIds : e[2] \in Range(s[e[1]])}

\* graph.in_degree(node): the number of edges into node (a self-loop counts).
in_degree(s, n) == Cardinality({u \in NodeIds : n \in Range(s[u])})

\* Nodes reachable from the set F along one or more edges.
RECURSIVE ReachFrom(_, _, _)
ReachFrom(s, F, seen) ==
    LET nxt == {v \in NodeIds : \E u \in F : v \in Range(s[u])} \ seen
    IN IF nxt = {} THEN seen ELSE ReachFrom(s, nxt, seen \cup nxt)

\* A mutant of HasCycle: self-loops are not seen.
HasCycleNoSelfLoop(s) ==
    \E n \in NodeIds : n \in ReachFrom([s EXCEPT ![n] = SeqFilterOut(s[n], n)], {n}, {})

\* list(nx.simple_cycles(self.graph)) is non-empty: some node reaches itself.
HasCycle(s) == \E n \in NodeIds : n \in ReachFrom(s, {n}, {})

\* graph.add_edge(u, v): a new edge goes last among u's successors, an
\* existing edge stays where it is.
GraphAddEdge(s, u, v) ==
    IF v \in Range(s[u]) THEN s ELSE [s EXCEPT ![u] = Append(s[u], v)]

\* A mutant of GraphRemoveEdge: the edge stays.
GraphRemoveEdgeKeeps(s, u, v) == s

\* graph.remove_edge(u, v)
GraphRemoveEdge(s, u, v) == [s EXCEPT ![u] = SeqFilterOut(s[u], v)]

\* A mutant of GraphRemoveNode: the edges into the node stay.
GraphRemoveNodeOutOnly(s, n) == [s EXCEPT ![n] = <<>>]

\* graph.remove_node(n): the node and every edge into or out of it.
GraphRemoveNode(s, n) ==
    [u \in NodeIds |-> IF u = n THEN <<>> ELSE SeqFilterOut(s[u], n)]

\* ------------------------------------------------------------- add_node
\* DAGBuilder._validate_parameters, for parameter lists (lists of dicts).
_validate_parameters(node_type, parameters) ==
    IF node_type = "ADD"
    THEN \A i \in 1..Len(parameters) :
            \/ parameters[i].k = "column" /\ parameters[i].t = "str"
            \/ parameters[i].k = "value" /\ parameters[i].t = "num"
    ELSE TRUE

\* DAGBuilder._convert_to_internal_parameters: the dict starts as
\* {"sources": []}; a column entry appends to the missing key "columns",
\* which raises KeyError; a value entry stores "value".
ConvertRaises(parameters) ==
    \E i \in 1..Len(parameters) : parameters[i].k = "column"

RECURSIVE ConvertFold(_, _)
ConvertFold(parameters, acc) ==
    IF parameters = <<>> THEN acc
    ELSE LET p == Head(parameters)
         IN IF p.k = "value"
            THEN ConvertFold(Tail(parameters),
                             [keys |-> acc.keys \cup {"value"},
                              columns |-> acc.columns,
                              value |-> [t |-> p.t, v |-> p.v]])
            ELSE ConvertFold(Tail(parameters), acc)

_convert_to_internal_parameters(parameters) ==
    ConvertFold(parameters, [keys |-> {"sources"}, columns |-> <<>>,
                             value |-> [t |-> "none", v |-> ""]])

\* A mutant of AddNodeOutcome: the id is checked before the node type.
AddNodeOutcomeIdFirst(node_id, node_type, parameters) ==
    IF InGraph(node_id) THEN "DuplicateNode"
    ELSE IF ~get_operation_function(node_type) THEN "UnsupportedType"
    ELSE IF ~_validate_parameters(node_type, parameters) THEN "InvalidParameters"
    ELSE IF ConvertRaises(parameters) THEN "KeyError"
    ELSE "ok"

\* The error add_node raises on a graph with the nodes ns, "ok" if none, in
\* the order the code checks.
AddNodeOutcomeOn(ns, node_id, node_type, parameters) ==
    IF ~get_operation_function(node_type) THEN "UnsupportedType"
    ELSE IF node_id \in Range(ns) THEN "DuplicateNode"
    ELSE IF ~_validate_parameters(node_type, parameters) THEN "InvalidParameters"
    ELSE IF ConvertRaises(parameters) THEN "KeyError"
    ELSE "ok"

\* The same on the store's graph.
AddNodeOutcome(node_id, node_type, parameters) ==
    AddNodeOutcomeOn(nodes, node_id, node_type, parameters)

add_node(node_id, node_type, parameters) ==
    LET out == AddNodeOutcome(node_id, node_type, parameters)
    IN /\ result' = out
       /\ IF out = "ok"
          THEN /\ nodes' = Append(nodes, node_id)
               /\ ntype' = [ntype EXCEPT ![node_id] = node_type]
               /\ nparams' = [nparams EXCEPT
                                ![node_id] = _convert_to_internal_parameters(parameters)]
          ELSE UNCHANGED <<nodes, ntype, nparams>>
       /\ UNCHANGED succ

\* ---------------------------------------------------------- remove_node
\* The call never raises; it logs "removed successfully" or "not found".
remove_node(node_id) ==
    /\ result' = IF InGraph(node_id) THEN "NodeRemoved" ELSE "NodeNotFound"
    /\ IF InGraph(node_id)
       THEN /\ nodes' = SeqFilterOut(nodes, node_id)
            /\ ntype' = [ntype EXCEPT ![node_id] = ""]
            /\ nparams' = [nparams EXCEPT ![node_id] = NoParams]
            /\ succ' = GraphRemoveNode(succ, node_id)
       ELSE UNCHANGED <<nodes, ntype, nparams, succ>>

\* ------------------------------------------------------------- add_edge
\* The edge is inserted, the whole graph is scanned for cycles, and on a
\* cycle the edge is removed again and the call raises.
add_edge(source_id, target_id) ==
    IF ~InGraph(source_id) \/ ~InGraph(target_id)
    THEN /\ result' = "NodeMissing"
         /\ UNCHANGED <<nodes, ntype, nparams, succ>>
    ELSE LET inserted == GraphAddEdge(succ, source_id, target_id)
         IN IF HasCycle(inserted)
            THEN /\ succ' = GraphRemoveEdge(inserted, source_id, target_id)
                 /\ result' = "Cycle"
                 /\ UNCHANGED <<nodes, ntype, nparams>>
            ELSE /\ succ' = inserted
                 /\ result' = "ok"
                 /\ UNCHANGED <<nodes, ntype, nparams>>

\* ---------------------------------------------------------- remove_edge
remove_edge(source_id, target_id) ==
    /\ result' = "ok"
    /\ IF <<source_id, target_id>> \in Edges(succ)
       THEN succ' = GraphRemoveEdge(succ, source_id, target_id)
       ELSE UNCHANGED succ
    /\ UNCHANGED <<nodes, ntype, nparams>>

\* ---------------------------------------------------------------- to_json
\* DAGBuilder._convert_from_internal_parameters: reads parameters["columns"]
\* and then parameters["value"]; either lookup raises KeyError when the key
\* is not in the dict.
ConvertFromRaises(parameters) ==
    "columns" \notin parameters.keys \/ "value" \notin parameters.keys

_convert_from_internal_parameters(parameters) ==
    [i \in 1..Len(parameters.columns) |-> Param("column", "str", parameters.columns[i])]
    \o (IF parameters.value.t # "none"
        THEN <<Param("value", parameters.value.t, parameters.value.v)>>
        ELSE <<>>)

\* graph.edges(): per node in node order, its successors in their order.
RECURSIVE EdgeList(_, _)
EdgeList(ns, s) ==
    IF ns = <<>> THEN <<>>
    ELSE [i \in 1..Len(s[Head(ns)]) |-> <<Head(ns), s[Head(ns)][i]>>]
         \o EdgeList(Tail(ns), s)

\* DAGBuilder.to_json on the graph (ns, ty, pa, s): the document, or the
\* KeyError of the parameter conversion.
to_json(ns, ty, pa, s) ==
    IF \E i \in 1..Len(ns) : ConvertFromRaises(pa[ns[i]])
    THEN [status |-> "KeyError", nodes |-> <<>>, edges |-> <<>>]
    ELSE [status |-> "ok",
          nodes |-> [i \in 1..Len(ns) |->
                        [id |-> ns[i], type |-> ty[ns[i]],
                         parameters |-> _convert_from_internal_parameters(pa[ns[i]])]],
          edges |-> EdgeList(ns, s)]

\* --------------------------------------------- save_to_file, load_from_file
\* The file holds json.dumps of the document; for the strings and numbers a
\* document is made of, json.load gives back the same lists and dicts.
\*
\* DAGBuilder.save_to_file: to_json runs before the file is opened, so when
\* it raises nothing is written.
save_to_file ==
    LET doc == to_json(nodes, ntype, nparams, succ)
    IN /\ IF doc.status = "ok"
          THEN /\ file' = [status |-> "written", nodes |-> doc.nodes,
                           edges |-> doc.edges]
               /\ result' = "ok"
          ELSE /\ file' = file
               /\ result' = doc.status
       /\ UNCHANGED <<nodes, ntype, nparams, succ>>

\* A graph as a value, with the error that stopped the load ("" if none).
EmptyGraph ==
    [nodes |-> <<>>, ntype |-> [n \in NodeIds |-> ""],
     nparams |-> [n \in NodeIds |-> NoParams],
     succ |-> [n \in NodeIds |-> <<>>], err |-> ""]

\* converted_parameters: an entry without "column" is read as p["value"],
\* which raises KeyError when the entry has neither key.
ConvertLoadedRaises(parameters) ==
    \E i \in 1..Len(parameters) : parameters[i].k \notin {"column", "value"}

\* for node in dag_config["nodes"]: self.add_node(...), up to the first error.
RECURSIVE LoadNodes(_, _)
LoadNodes(g, ds) ==
    IF ds = <<>> THEN g
    ELSE LET d == Head(ds)
             out == IF ConvertLoadedRaises(d.parameters) THEN "KeyError"
                    ELSE AddNodeOutcomeOn(g.nodes, d.id, d.type, d.parameters)
         IN IF out # "ok" THEN [g EXCEPT !.err = out]
            ELSE LoadNodes(
                   [g EXCEPT !.nodes = Append(g.nodes, d.id),
                             !.ntype[d.id] = d.type,
                             !.nparams[d.id] =
                                 _convert_to_internal_parameters(d.parameters)],
                   Tail(ds))

\* for edge in dag_config["edges"]: self.add_edge(...), up to the first error.
RECURSIVE LoadEdges(_, _)
LoadEdges(g, es) ==
    IF es = <<>> \/ g.err # "" THEN g
    ELSE LET u == Head(es)[1]
             v == Head(es)[2]
             inserted == GraphAddEdge(g.succ, u, v)
         IN IF u \notin Range(g.nodes) \/ v \notin Range(g.nodes)
            THEN [g EXCEPT !.err = "NodeMissing"]
            ELSE IF HasCycle(inserted)
                 THEN [g EXCEPT !.succ = GraphRemoveEdge(inserted, u, v),
                                !.err = "Cycle"]
                 ELSE LoadEdges([g EXCEPT !.succ = inserted], Tail(es))

\* The graph load_from_file leaves for a document: graph.clear(), then the
\* nodes and the edges replayed in document order.
LoadDocument(doc) == LoadEdges(LoadNodes(EmptyGraph, doc.nodes), doc.edges)

\* DAGBuilder.load_from_file: open() raises when there is no file, before
\* the graph is touched.
load_from_file ==
    IF file.status = "none"
    THEN /\ result' = "FileNotFound"
         /\ UNCHANGED <<nodes, ntype, nparams, succ>>
    ELSE LET g == LoadDocument(file)
         IN /\ nodes' = g.nodes
            /\ ntype' = g.ntype
            /\ nparams' = g.nparams
            /\ succ' = g.succ
            /\ result' = IF g.err = "" THEN "ok" ELSE g.err

\* -------------------------------------------------- resolve_dependencies
NoPlan == [status |-> "none", order |-> <<>>]

\* A mutant of IsReady: a successor is queued one decrement too early.
IsReadyEarly(indegree_map, successor) == indegree_map[successor] <= 1

\* if indegree_map[successor] == 0: queue.append(successor)
IsReady(indegree_map, successor) == indegree_map[successor] = 0

\* for successor in graph.successors(node): decrement, queue when ready.
RECURSIVE VisitSuccessors(_, _, _)
VisitSuccessors(ss, indegree_map, queue) ==
    IF ss = <<>> THEN [indegree_map |-> indegree_map, queue |-> queue]
    ELSE LET d == [indegree_map EXCEPT ![Head(ss)] = @ - 1]
         IN VisitSuccessors(Tail(ss), d,
                            IF IsReady(d, Head(ss)) THEN Append(queue, Head(ss))
                            ELSE queue)

\* while queue: node = queue.popleft(); visited.add(node); plan.append(...)
RECURSIVE KahnLoop(_, _, _, _, _)
KahnLoop(s, queue, indegree_map, execution_plan, visited) ==
    IF queue = <<>> THEN [execution_plan |-> execution_plan, visited |-> visited]
    ELSE LET node == Head(queue)
             r == VisitSuccessors(s[node], indegree_map, Tail(queue))
         IN KahnLoop(s, r.queue, r.indegree_map,
                     Append(execution_plan, node), visited \cup {node})

\* A mutant of AllVisited: the defensive check is dropped.
AllVisitedUnchecked(visited, ns) == TRUE

\* len(visited) == len(graph.nodes)
AllVisited(visited, ns) == Cardinality(visited) = Len(ns)

\* resolve_dependencies(graph): the flat plan (one delayed execute_node per
\* node, written as the node), or the ValueError for a graph with a cycle.
resolve_dependencies(ns, s) ==
    LET indegree_map == [n \in NodeIds |-> in_degree(s, n)]
        Source(n) == indegree_map[n] = 0
        r == KahnLoop(s, SelectSeq(ns, Source), indegree_map, <<>>, {})
    IN IF AllVisited(r.visited, ns)
       THEN [status |-> "ok", order |-> r.execution_plan]
       ELSE [status |-> "CycleError", order |-> <<>>]

\* ------------------------------------------------ the request handlers
\* A request that no other request runs beside: the handler from its first
\* line to its last.  Requests that overlap are taken step by step in "the
\* server's threads" below.
\*
\* POST /add_node
AddNode(node_id, node_type, parameters) ==
    /\ pc = "idle"
    /\ add_node(node_id, node_type, parameters)
    /\ plan' = NoPlan
    /\ UNCHANGED <<runVars, auxVars>>

\* DELETE /remove_node/<node_id>
RemoveNode(node_id) ==
    /\ pc = "idle"
    /\ remove_node(node_id)
    /\ plan' = NoPlan
    /\ UNCHANGED <<runVars, auxVars>>

\* POST /add_edge
AddEdge(source_id, target_id) ==
    /\ pc = "idle"
    /\ add_edge(source_id, target_id)
    /\ plan' = NoPlan
    /\ UNCHANGED <<runVars, auxVars>>

\* POST /remove_edge
RemoveEdge(source_id, target_id) ==
    /\ pc = "idle"
    /\ remove_edge(source_id, target_id)
    /\ plan' = NoPlan
    /\ UNCHANGED <<runVars, auxVars>>

\* dag.save_to_file(path), called on the store by its owner
SaveToFile ==
    /\ pc = "idle"
    /\ save_to_file
    /\ plan' = NoPlan
    /\ UNCHANGED <<runVars, requests, layout, resolver, exec>>

\* dag.load_from_file(path), called on the store by its owner
LoadFromFile ==
    /\ pc = "idle"
    /\ load_from_file
    /\ plan' = NoPlan
    /\ UNCHANGED <<runVars, file, requests, layout, resolver, exec>>

\* GET /execute, first half: execution_plan = resolve_dependencies(graph)
Resolve ==
    /\ pc = "idle"
    /\ plan' = resolve_dependencies(nodes, succ)
    /\ result' = IF plan'.status = "ok" THEN "ok" ELSE plan'.status
    /\ UNCHANGED <<nodes, ntype, nparams, succ>>
    /\ UNCHANGED <<runVars, auxVars>>

\* ============================================== the server's threads
\* The Flask server answers each request on a thread of its own, all on the
\* module-level dag_builder, with no lock.  A request is modelled one read
\* or one change of the shared graph per step, with the work on locals that
\* follows it; a networkx call is one such step.  Steps of different
\* requests interleave freely.
\*
\* ------------------------------------------------------- dict entry tables
\* A dict keeps its entries in a table in insertion order.  Deleting a key
\* leaves a hole in its slot.  The table of a new dict has DictUsable
\* slots; an insertion that finds every slot of the table used rebuilds the
\* table without the holes, for the keys the dict has at that moment: a
\* dict without keys gets the table of a new dict again, one with keys (a
\* dict here has at most five) a table of DictGrownUsable slots.  An
\* iterator walks the slots, so what it yields after a change depends on
\* the holes.
DictUsable == 5
DictGrownUsable == 10
Hole == 0

IsKey(x) == x # Hole
Live(slots) == SelectSeq(slots, IsKey)

\* d[k] = v for a key that may be new, on a table of `usable` slots: the
\* slots afterwards, and the number of slots the table has afterwards.
DictRebuilds(slots, k, usable) == k \notin Range(slots) /\ Len(slots) >= usable

DictInsert(slots, k, usable) ==
    IF k \in Range(slots) THEN slots
    ELSE IF DictRebuilds(slots, k, usable) THEN Append(Live(slots), k)
    ELSE Append(slots, k)

DictInsertUsable(slots, k, usable) ==
    IF DictRebuilds(slots, k, usable)
    THEN IF Live(slots) = <<>> THEN DictUsable ELSE DictGrownUsable
    ELSE usable

\* del d[k]
DictDelete(slots, k) ==
    [i \in 1..Len(slots) |-> IF slots[i] = k THEN Hole ELSE slots[i]]

\* next() of a key iterator made when the dict had it_used keys, which has
\* walked it_pos slots and has it_len keys still to yield: RuntimeError
\* "dictionary changed size during iteration" when the dict has another
\* number of keys now, StopIteration when no key is left in the slots
\* ahead, RuntimeError "dictionary keys changed during iteration" when
\* there is one but the iterator has yielded its number already.
DictNext(slots, it_used, it_pos, it_len) ==
    LET ahead == {i \in (it_pos + 1)..Len(slots) : slots[i] # Hole}
        first == CHOOSE i \in ahead : \A j \in ahead : i <= j
    IN IF Len(Live(slots)) # it_used
       THEN [kind |-> "size", key |-> Hole, pos |-> it_pos]
       ELSE IF ahead = {}
            THEN [kind |-> "stop", key |-> Hole, pos |-> it_pos]
            ELSE IF it_len = 0
                 THEN [kind |-> "keys", key |-> Hole, pos |-> it_pos]
                 ELSE [kind |-> "yield", key |-> slots[first], pos |-> first]

\* The tables of a graph no key was ever deleted from: the slots of the
\* node dict and of each node's successor dict, and how many slots each
\* table has.
FreshLayout ==
    [node |-> nodes, succ |-> succ,
     nodeUsable |-> DictUsable, succUsable |-> [n \in NodeIds |-> DictUsable]]

\* The tables of a graph whose node dict has had keys deleted: every slot
\* of its table is used, the first ones by holes.
WornLayout ==
    [FreshLayout EXCEPT
       !.node = [i \in 1..(DictUsable - Len(nodes)) |-> Hole] \o nodes]

\* graph.add_node(n, ...), graph.remove_node(n), graph.add_edge(u, v) (which
\* creates the nodes it does not find, u first) and graph.remove_edge(u, v)
\* on the tables.
LayoutAddNode(L, n) ==
    [L EXCEPT !.node = DictInsert(@, n, L.nodeUsable),
              !.nodeUsable = DictInsertUsable(L.node, n, @)]

\* The removed node's successor dict leaves the graph; a node of this id
\* added later gets a new dict.
LayoutRemoveNode(L, n) ==
    [L EXCEPT !.node = DictDelete(@, n),
              !.succ = [u \in NodeIds |->
                          IF u = n THEN <<>> ELSE DictDelete(@[u], n)],
              !.succUsable[n] = DictUsable]

LayoutAddEdge(L, u, v) ==
    LET withU == LayoutAddNode(L, u)
        withV == LayoutAddNode(withU, v)
    IN [withV EXCEPT
          !.succ[u] = DictInsert(@, v, L.succUsable[u]),
          !.succUsable[u] = DictInsertUsable(L.succ[u], v, @)]

LayoutRemoveEdge(L, u, v) == [L EXCEPT !.succ[u] = DictDelete(@, v)]

\* The graph becomes the one with the tables L.
SetGraph(L) ==
    /\ layout' = L
    /\ nodes' = Live(L.node)
    /\ succ' = [n \in NodeIds |-> Live(L.succ[n])]

\* ------------------------------------------------------ mutation requests
\* A request in progress: the call, its arguments and where it is.
Req(op, a, b, at, fresh) ==
    [op |-> op, a |-> a, b |-> b, pc |-> at, fresh |-> fresh]

InFlight == BagToSet(requests.inflight)

\* A request arrives and goes on after its first step; it moves on; it
\* ends; it arrives and keeps no record among the requests in progress.
Begin(r) ==
    /\ requests.started < MaxRequests
    /\ requests' = [inflight |-> requests.inflight (+) SetToBag({r}),
                    started |-> requests.started + 1]

Move(r, q) ==
    requests' = [requests EXCEPT
                   !.inflight = (@ (-) SetToBag({r})) (+) SetToBag({q})]

Finish(r) == requests' = [requests EXCEPT !.inflight = @ (-) SetToBag({r})]

BeginAndFinish ==
    /\ requests.started < MaxRequests
    /\ requests' = [requests EXCEPT !.started = @ + 1]

\* POST /add_node, lines 11-24: the registry lookup, `node_id in self.graph`
\* and the work on the parameters.
AddNodeTest(node_id, node_type, parameters) ==
    /\ pc = "idle"
    /\ LET out == AddNodeOutcome(node_id, node_type, parameters)
       IN IF out = "ok"
          THEN /\ Begin(Req("add_node", node_id, NoneKey, "change", FALSE))
               /\ UNCHANGED <<result, plan>>
          ELSE /\ BeginAndFinish
               /\ result' = out
               /\ plan' = NoPlan
    /\ UNCHANGED <<nodes, ntype, nparams, succ, layout, resolver,
                   runVars, file, exec>>

\* POST /add_node, line 25: graph.add_node(node_id, type=..., parameters=...)
\* adds the node, or gives the attributes to the node that is there by now.
AddNodeChange(r, node_type, parameters) ==
    /\ pc = "idle"
    /\ r \in InFlight
    /\ r.op = "add_node"
    /\ SetGraph(LayoutAddNode(layout, r.a))
    /\ ntype' = [ntype EXCEPT ![r.a] = node_type]
    /\ nparams' = [nparams EXCEPT
                     ![r.a] = _convert_to_internal_parameters(parameters)]
    /\ result' = "ok"
    /\ plan' = NoPlan
    /\ Finish(r)
    /\ UNCHANGED <<resolver, runVars, file, exec>>

\* DELETE /remove_node, line 66: `node_id in self.graph`.
RemoveNodeTest(node_id) ==
    /\ pc = "idle"
    /\ IF InGraph(node_id)
       THEN /\ Begin(Req("remove_node", node_id, NoneKey, "change", FALSE))
            /\ UNCHANGED <<result, plan>>
       ELSE /\ BeginAndFinish
            /\ result' = "NodeNotFound"
            /\ plan' = NoPlan
    /\ UNCHANGED <<nodes, ntype, nparams, succ, layout, resolver,
                   runVars, file, exec>>

\* DELETE /remove_node, line 67: graph.remove_node(node_id), NetworkXError
\* for a node that is gone by now.  The node's successor dict leaves the
\* graph as it is: an iterator over it goes on over that dict.
RemoveNodeChange(r) ==
    /\ pc = "idle"
    /\ r \in InFlight
    /\ r.op = "remove_node"
    /\ IF InGraph(r.a)
       THEN /\ SetGraph(LayoutRemoveNode(layout, r.a))
            /\ ntype' = [ntype EXCEPT ![r.a] = ""]
            /\ nparams' = [nparams EXCEPT ![r.a] = NoParams]
            /\ resolver' =
                 IF resolver.pc = "succNext" /\ resolver.node = r.a
                    /\ ~resolver.detached
                 THEN [resolver EXCEPT !.detached = TRUE,
                                       !.it_orphan = layout.succ[r.a]]
                 ELSE resolver
            /\ result' = "NodeRemoved"
       ELSE /\ result' = "NetworkXError"
            /\ UNCHANGED <<nodes, ntype, nparams, succ, layout, resolver>>
    /\ plan' = NoPlan
    /\ Finish(r)
    /\ UNCHANGED <<runVars, file, exec>>

\* POST /add_edge, line 77, left operand: `source_id not in self.graph`.
AddEdgeTestSource(source_id, target_id) ==
    /\ pc = "idle"
    /\ IF InGraph(source_id)
       THEN /\ Begin(Req("add_edge", source_id, target_id, "target", FALSE))
            /\ UNCHANGED <<result, plan>>
       ELSE /\ BeginAndFinish
            /\ result' = "NodeMissing"
            /\ plan' = NoPlan
    /\ UNCHANGED <<nodes, ntype, nparams, succ, layout, resolver,
                   runVars, file, exec>>

\* POST /add_edge, line 77, right operand: `target_id not in self.graph`.
AddEdgeTestTarget(r) ==
    /\ pc = "idle"
    /\ r \in InFlight
    /\ r.op = "add_edge"
    /\ r.pc = "target"
    /\ IF InGraph(r.b)
       THEN /\ Move(r, [r EXCEPT !.pc = "insert"])
            /\ UNCHANGED <<result, plan>>
       ELSE /\ Finish(r)
            /\ result' = "NodeMissing"
            /\ plan' = NoPlan
    /\ UNCHANGED <<nodes, ntype, nparams, succ, layout, resolver,
                   runVars, file, exec>>

\* POST /add_edge, line 79: graph.add_edge(source_id, target_id).  A node
\* that is gone by now comes back without attributes.  `fresh` notes
\* whether the edge was absent before.
AddEdgeInsert(r) ==
    /\ pc = "idle"
    /\ r \in InFlight
    /\ r.op = "add_edge"
    /\ r.pc = "insert"
    /\ SetGraph(LayoutAddEdge(layout, r.a, r.b))
    /\ Move(r, [r EXCEPT !.pc = "scan",
                         !.fresh = r.b \notin Range(succ[r.a])])
    /\ UNCHANGED <<ntype, nparams, result, plan, resolver, runVars, file, exec>>

\* POST /add_edge, line 80: list(nx.simple_cycles(self.graph)) on the graph
\* as it is now.
AddEdgeScan(r) ==
    /\ pc = "idle"
    /\ r \in InFlight
    /\ r.op = "add_edge"
    /\ r.pc = "scan"
    /\ IF HasCycle(succ)
       THEN /\ Move(r, [r EXCEPT !.pc = "undo"])
            /\ UNCHANGED <<result, plan>>
       ELSE /\ Finish(r)
            /\ result' = "ok"
            /\ plan' = NoPlan
    /\ UNCHANGED <<nodes, ntype, nparams, succ, layout, resolver,
                   runVars, file, exec>>

\* POST /add_edge, lines 81-82: graph.remove_edge(source_id, target_id),
\* NetworkXError for an edge that is gone by now, then the ValueError.
AddEdgeUndo(r) ==
    /\ pc = "idle"
    /\ r \in InFlight
    /\ r.op = "add_edge"
    /\ r.pc = "undo"
    /\ IF r.b \in Range(succ[r.a])
       THEN /\ SetGraph(LayoutRemoveEdge(layout, r.a, r.b))
            /\ result' = "Cycle"
       ELSE /\ result' = "NetworkXError"
            /\ UNCHANGED <<nodes, succ, layout>>
    /\ plan' = NoPlan
    /\ Finish(r)
    /\ UNCHANGED <<ntype, nparams, resolver, runVars, file, exec>>

\* POST /remove_edge, line 90: graph.has_edge(source_id, target_id).
RemoveEdgeTest(source_id, target_id) ==
    /\ pc = "idle"
    /\ IF target_id \in Range(succ[source_id])
       THEN /\ Begin(Req("remove_edge", source_id, target_id, "change", FALSE))
            /\ UNCHANGED <<result, plan>>
       ELSE /\ BeginAndFinish
            /\ result' = "ok"
            /\ plan' = NoPlan
    /\ UNCHANGED <<nodes, ntype, nparams, succ, layout, resolver,
                   runVars, file, exec>>

\* POST /remove_edge, line 91: graph.remove_edge(source_id, target_id),
\* NetworkXError for an edge that is gone by now.
RemoveEdgeChange(r) ==
    /\ pc = "idle"
    /\ r \in InFlight
    /\ r.op = "remove_edge"
    /\ IF r.b \in Range(succ[r.a])
       THEN /\ SetGraph(LayoutRemoveEdge(layout, r.a, r.b))
            /\ result' = "ok"
       ELSE /\ result' = "NetworkXError"
            /\ UNCHANGED <<nodes, succ, layout>>
    /\ plan' = NoPlan
    /\ Finish(r)
    /\ UNCHANGED <<ntype, nparams, resolver, runVars, file, exec>>

\* ------------------------------------------------ the resolving request
\* GET /execute: resolve_dependencies works on dag_builder.graph itself.
\*
\* What graph.in_degree(node) returns for a node that is not in the graph:
\* a degree view, not a number.
ViewObject == 100

\* The exception that ends the call.
ResolveRaises(error) ==
    /\ resolver' = ResolverIdle
    /\ plan' = [status |-> error, order |-> <<>>]
    /\ result' = error

\* What a next() of the resolver's iterator gives on the table `slots`.
ResolverNext(slots) ==
    DictNext(slots, resolver.it_used, resolver.it_pos, resolver.it_len)

\* Line 24, `for node in graph` is entered: the iterator is made.
\* snapNodes and snapSucc remember the graph of this moment.
ResolveBegin ==
    /\ pc = "idle"
    /\ resolver.pc = "idle"
    /\ BeginAndFinish
    /\ resolver' = [ResolverIdle EXCEPT
                      !.pc = "indeg",
                      !.it_used = Len(nodes), !.it_len = Len(nodes),
                      !.snapNodes = nodes, !.snapSucc = succ]
    /\ UNCHANGED <<storeVars, runVars, file, layout, exec>>

\* Line 24, next() of the node iterator.
IndegNext ==
    /\ pc = "idle"
    /\ resolver.pc = "indeg"
    /\ LET n == ResolverNext(layout.node)
       IN IF n.kind \in {"size", "keys"}
          THEN ResolveRaises("RuntimeError")
          ELSE /\ IF n.kind = "stop"
                  THEN resolver' = [resolver EXCEPT !.pc = "queueIter"]
                  ELSE resolver' = [resolver EXCEPT
                                      !.pc = "indegCheck",
                                      !.node = n.key,
                                      !.it_pos = n.pos,
                                      !.it_len = @ - 1]
               /\ UNCHANGED <<plan, result>>
    /\ UNCHANGED <<nodes, ntype, nparams, succ, runVars, file, requests,
                   layout, exec>>

\* Line 24, graph.in_degree(node): the test whether the node is in the
\* graph; for one that is not, a view is stored under its key.
IndegCheck ==
    /\ pc = "idle"
    /\ resolver.pc = "indegCheck"
    /\ IF resolver.node \in Range(nodes)
       THEN resolver' = [resolver EXCEPT !.pc = "indegRead"]
       ELSE resolver' = [resolver EXCEPT
                           !.pc = "indeg",
                           !.keys = @ \cup {resolver.node},
                           !.indegree_map[resolver.node] = ViewObject]
    /\ UNCHANGED <<storeVars, runVars, file, requests, layout, exec>>

\* Line 24, graph.in_degree(node): the number of predecessors is read; the
\* read raises KeyError when the node has been removed since the test.
IndegRead ==
    /\ pc = "idle"
    /\ resolver.pc = "indegRead"
    /\ IF resolver.node \in Range(nodes)
       THEN /\ resolver' = [resolver EXCEPT
                              !.pc = "indeg",
                              !.keys = @ \cup {resolver.node},
                              !.indegree_map[resolver.node] =
                                  in_degree(succ, resolver.node)]
            /\ UNCHANGED <<plan, result>>
       ELSE ResolveRaises("KeyError")
    /\ UNCHANGED <<nodes, ntype, nparams, succ, runVars, file, requests,
                   layout, exec>>

\* Line 27, `for node in graph` is entered: a second iterator is made.
QueueIter ==
    /\ pc = "idle"
    /\ resolver.pc = "queueIter"
    /\ resolver' = [resolver EXCEPT
                      !.pc = "queue", !.it_used = Len(nodes),
                      !.it_len = Len(nodes), !.it_pos = 0]
    /\ UNCHANGED <<storeVars, runVars, file, requests, layout, exec>>

\* Line 27, next() of that iterator and indegree_map[node] == 0; a node
\* that indegree_map has no key for is a KeyError.
QueueNext ==
    /\ pc = "idle"
    /\ resolver.pc = "queue"
    /\ LET n == ResolverNext(layout.node)
       IN IF n.kind \in {"size", "keys"}
          THEN ResolveRaises("RuntimeError")
          ELSE IF n.kind = "stop"
               THEN /\ resolver' = [resolver EXCEPT !.pc = "loop"]
                    /\ UNCHANGED <<plan, result>>
               ELSE IF n.key \notin resolver.keys
                    THEN ResolveRaises("KeyError")
                    ELSE /\ resolver' =
                               [resolver EXCEPT
                                  !.it_pos = n.pos,
                                  !.it_len = @ - 1,
                                  !.queue =
                                     IF resolver.indegree_map[n.key] = 0
                                     THEN Append(@, n.key) ELSE @]
                         /\ UNCHANGED <<plan, result>>
    /\ UNCHANGED <<nodes, ntype, nparams, succ, runVars, file, requests,
                   layout, exec>>

\* Lines 29-33: `while queue`, popleft, visited.add, and graph.nodes[node],
\* a KeyError for a node that is gone.
LoopNode ==
    /\ pc = "idle"
    /\ resolver.pc = "loop"
    /\ resolver.queue # <<>>
    /\ LET node == Head(resolver.queue)
       IN IF node \notin Range(nodes)
          THEN ResolveRaises("KeyError")
          ELSE /\ resolver' = [resolver EXCEPT
                                 !.pc = "succ",
                                 !.node = node,
                                 !.queue = Tail(@),
                                 !.visited = @ \cup {node},
                                 !.execution_plan = Append(@, node)]
               /\ UNCHANGED <<plan, result>>
    /\ UNCHANGED <<nodes, ntype, nparams, succ, runVars, file, requests,
                   layout, exec>>

\* Line 35, graph.successors(node): the iterator over the node's successor
\* dict is made; NetworkXError for a node that is gone.
SuccIter ==
    /\ pc = "idle"
    /\ resolver.pc = "succ"
    /\ IF resolver.node \notin Range(nodes)
       THEN ResolveRaises("NetworkXError")
       ELSE /\ resolver' = [resolver EXCEPT
                              !.pc = "succNext",
                              !.detached = FALSE,
                              !.it_orphan = <<>>,
                              !.it_used = Len(succ[resolver.node]),
                              !.it_len = Len(succ[resolver.node]),
                              !.it_pos = 0]
            /\ UNCHANGED <<plan, result>>
    /\ UNCHANGED <<nodes, ntype, nparams, succ, runVars, file, requests,
                   layout, exec>>

\* The successor dict the resolver's iterator is on: the node's in the
\* graph, or the one remove_node took out of the graph.
SuccDict ==
    IF resolver.detached THEN resolver.it_orphan
    ELSE layout.succ[resolver.node]

\* Lines 35-38, next() of the successor iterator and the work on
\* indegree_map and queue.
SuccNext ==
    /\ pc = "idle"
    /\ resolver.pc = "succNext"
    /\ LET n == ResolverNext(SuccDict)
       IN IF n.kind \in {"size", "keys"}
          THEN ResolveRaises("RuntimeError")
          ELSE IF n.kind = "stop"
               THEN /\ resolver' = [resolver EXCEPT !.pc = "loop"]
                    /\ UNCHANGED <<plan, result>>
               ELSE IF n.key \notin resolver.keys
                    THEN ResolveRaises("KeyError")
                    ELSE IF resolver.indegree_map[n.key] = ViewObject
                         THEN ResolveRaises("TypeError")
                         ELSE LET r == VisitSuccessors(
                                          <<n.key>>, resolver.indegree_map,
                                          resolver.queue)
                              IN /\ resolver' =
                                       [resolver EXCEPT
                                          !.it_pos = n.pos,
                                          !.it_len = @ - 1,
                                          !.queue = r.queue,
                                          !.indegree_map = r.indegree_map]
                                 /\ UNCHANGED <<plan, result>>
    /\ UNCHANGED <<nodes, ntype, nparams, succ, runVars, file, requests,
                   layout, exec>>

\* Lines 40-45, after the loop: len(visited) against len(graph.nodes) as it
\* is now.
ResolveEnd ==
    /\ pc = "idle"
    /\ resolver.pc = "loop"
    /\ resolver.queue = <<>>
    /\ IF AllVisited(resolver.visited, nodes)
       THEN /\ plan' = [status |-> "ok", order |-> resolver.execution_plan]
            /\ result' = "ok"
            /\ resolver' = ResolverIdle
       ELSE ResolveRaises("CycleError")
    /\ UNCHANGED <<nodes, ntype, nparams, succ, runVars, file, requests,
                   layout, exec>>

\* ---------------------------------------------------------- execute_node
\* missing_params = [param for param in required_params
\*                   if param not in parameters]
\* A mutant of missing_params: only the first required name is looked for.
missing_params_first_only(required_params, parameters) ==
    IF required_params # <<>> /\ Head(required_params) \notin DOMAIN parameters
    THEN <<Head(required_params)>> ELSE <<>>

missing_params(required_params, parameters) ==
    LET Absent(param) == param \notin DOMAIN parameters
    IN SelectSeq(required_params, Absent)

\* execute_node(node_data, node_id): the outcome of the call and the calls
\* of operation functions it made. unitRaises is whether the operation
\* function raises once called (add_operation and sma_operation only log;
\* adx_operation computes on the arrays it is given and re-raises).
execute_node(node_data, unitRaises) ==
    LET node_type == node_data.type
        parameters == IF node_data.hasParameters THEN node_data.parameters
                      ELSE <<>>
    IN IF ~get_operation_function(node_type)
       THEN [node_data |-> node_data, status |-> "ValueError",
             missing |-> <<>>, calls |-> <<>>]
       ELSE LET missing == missing_params(function_registry[node_type],
                                          parameters)
                call == [unit |-> node_type, parameters |-> parameters]
            IN IF missing # <<>>
               THEN [node_data |-> node_data, status |-> "ValueError",
                     missing |-> missing, calls |-> <<>>]
               ELSE [node_data |-> node_data,
                     status |-> IF unitRaises /\ node_type = "ADX"
                                THEN "UnitError" ELSE "ok",
                     missing |-> <<>>, calls |-> <<call>>]

\* One direct call execute_node(node_data, node_id), as a worker or a test
\* makes it, lines 55-70: up to the return of the operation function, or to
\* the exception that ends the call (lines 76-78).  After the operation
\* function has returned the call is in time.sleep(1) of line 73.
ExecuteNodeCall(unitRaises) ==
    /\ pc = "idle"
    /\ exec.status = "none"
    /\ exec.node_data # NoNodeData
    /\ LET done == execute_node(exec.node_data, unitRaises)
       IN exec' = IF done.status = "ok"
                  THEN [done EXCEPT !.status = "sleeping"]
                  ELSE done
    /\ UNCHANGED <<storeVars, runVars, file, requests, layout, resolver>>

\* Lines 73-75: time.sleep(1) is over and the call returns.
ExecuteNodeReturn ==
    /\ pc = "idle"
    /\ exec.status = "sleeping"
    /\ exec' = [exec EXCEPT !.status = "ok"]
    /\ UNCHANGED <<storeVars, runVars, file, requests, layout, resolver>>

\* ------------------------------------------------- execute_operations
\* Exceptions, by the attempt that raised them: the exception object a unit
\* raised in attempt number `attempt` of node `raisedBy`.
NoError == [type |-> "none", raisedBy |-> 0, attempt |-> 0]
TypeError == [type |-> "TypeError", raisedBy |-> 0, attempt |-> 0]
UnitError(n, k) == [type |-> "UnitError", raisedBy |-> n, attempt |-> k]
\* What Client(...) or client.compute(...) raised; the UnboundLocalError of
\* reading the local `client` that was never assigned.
ClientError == [type |-> "ClientError", raisedBy |-> 0, attempt |-> 0]
SubmitError == [type |-> "SubmitError", raisedBy |-> 0, attempt |-> 0]
UnboundLocalError == [type |-> "UnboundLocalError", raisedBy |-> 0, attempt |-> 0]

\* del d[k], then d[k2] = v in the order the code performs them.
DictSet(d, k, v) == [x \in DOMAIN d \cup {k} |-> IF x = k THEN v ELSE d[x]]
DictDel(d, k) == [x \in DOMAIN d \ {k} |-> d[x]]

Running == {n \in NodeIds : fstate[n] = "Running"}

\* GET /execute, second half: execute_operations(execution_plan, b) up to the
\* loop: the Client is created, client.compute submits every operation of
\* the plan at once (the delayed execute_node calls take no other
\* operation's output, so the scheduler sees no dependency between them),
\* and the two tracking structures are filled.
ExecStart(b) ==
    /\ pc = "idle"
    /\ plan.status = "ok"
    /\ budget' = b
    /\ client' = "open"
    /\ fstate' = [n \in NodeIds |->
                    IF n \in Range(plan.order) THEN "Pending" ELSE "none"]
    /\ operation_retry_attempts' = [n \in Range(plan.order) |-> b]
    /\ all_futures' = plan.order
    /\ pc' = "while"
    /\ UNCHANGED <<attempts, fails, waiting, recorded, interrupted, runError>>
    /\ UNCHANGED <<storeVars, auxVars, handling>>

\* Client(...) raises (the local cluster cannot be started): `client` is
\* never assigned and control goes to the except and finally clauses.
ExecStartFails(b) ==
    /\ pc = "idle"
    /\ plan.status = "ok"
    /\ budget' = b
    /\ runError' = ClientError
    /\ pc' = "finally"
    /\ UNCHANGED <<client, fstate, attempts, fails, all_futures,
                   operation_retry_attempts, waiting, recorded, interrupted>>
    /\ UNCHANGED <<storeVars, auxVars, handling>>

\* The client is there and client.compute(execution_plan) raises.
ExecSubmitFails(b) ==
    /\ pc = "idle"
    /\ plan.status = "ok"
    /\ budget' = b
    /\ client' = "open"
    /\ runError' = SubmitError
    /\ pc' = "finally"
    /\ UNCHANGED <<fstate, attempts, fails, all_futures,
                   operation_retry_attempts, waiting, recorded, interrupted>>
    /\ UNCHANGED <<storeVars, auxVars, handling>>

\* while all_futures: for future in as_completed(all_futures): ...
\* as_completed takes its own copy of the list and raises TypeError for an
\* element that is not a Future.
WhileTest ==
    /\ pc = "while"
    /\ IF all_futures = <<>>
       THEN /\ pc' = "finally"
            /\ UNCHANGED <<waiting, runError>>
       ELSE IF NoneKey \in Range(all_futures)
            THEN /\ runError' = TypeError
                 /\ pc' = "finally"
                 /\ UNCHANGED waiting
            ELSE /\ waiting' = Range(all_futures)
                 /\ pc' = "for"
                 /\ UNCHANGED runError
    /\ UNCHANGED <<budget, client, fstate, attempts, fails, all_futures,
                   operation_retry_attempts, recorded, interrupted>>
    /\ UNCHANGED <<storeVars, auxVars, handling>>

\* The body of the for loop for one completed future, up to the return or
\* to the call client.retry(future) of line 36.  Client.retry asks the
\* scheduler to run the failed key again (the same future goes back to
\* pending) and blocks until the scheduler has answered; the workers go on
\* meanwhile.
HandleFuture(future) ==
    IF future \in DOMAIN operation_retry_attempts
    THEN IF fstate[future] = "Succeeded"
         THEN /\ all_futures' = ListRemove(all_futures, future)
              /\ operation_retry_attempts' = DictDel(operation_retry_attempts, future)
              /\ recorded' = [recorded EXCEPT ![future] = @ + 1]
              /\ UNCHANGED <<fstate, runError, pc, handling>>
         ELSE LET current_attempts == operation_retry_attempts[future]
              IN IF current_attempts > 1
                 THEN /\ fstate' = [fstate EXCEPT ![future] = "Pending"]
                      /\ handling' = future
                      /\ pc' = "retry"
                      /\ UNCHANGED <<operation_retry_attempts, all_futures,
                                     recorded, runError>>
                 ELSE /\ runError' = UnitError(future, fails[future])
                      /\ pc' = "finally"
                      /\ UNCHANGED <<fstate, operation_retry_attempts,
                                     all_futures, recorded, handling>>
    ELSE /\ all_futures' = ListRemove(all_futures, future)
         /\ UNCHANGED <<fstate, operation_retry_attempts, recorded, runError,
                        pc, handling>>

\* client.retry(future) has returned None: lines 37-38 and 42-43 track None
\* with one attempt fewer and stop tracking the future.
RetryReturn ==
    /\ pc = "retry"
    /\ LET current_attempts == operation_retry_attempts[handling]
       IN /\ operation_retry_attempts' =
                DictDel(DictSet(operation_retry_attempts, NoneKey,
                                current_attempts - 1), handling)
          /\ all_futures' = ListRemove(Append(all_futures, NoneKey), handling)
    /\ handling' = NoneKey
    /\ pc' = "for"
    /\ UNCHANGED <<budget, client, fstate, attempts, fails, waiting, recorded,
                   interrupted, runError>>
    /\ UNCHANGED <<storeVars, auxVars>>

\* One iteration of `for future in as_completed(...)`: the iterator yields a
\* future once it is done; when it has yielded them all the for loop ends.
ForStep ==
    /\ pc = "for"
    /\ IF waiting = {}
       THEN /\ pc' = "while"
            /\ UNCHANGED <<waiting, fstate, all_futures,
                           operation_retry_attempts, recorded, runError,
                           handling>>
       ELSE \E future \in waiting :
               /\ fstate[future] \in {"Succeeded", "Failed"}
               /\ waiting' = waiting \ {future}
               /\ HandleFuture(future)
    /\ UNCHANGED <<budget, client, attempts, fails, interrupted>>
    /\ UNCHANGED <<storeVars, auxVars>>

\* finally: client.shutdown().  The scheduler and its workers stop: an
\* attempt that is running is cut off, a pending one never starts.
Shutdown ==
    /\ pc = "finally"
    /\ IF client = "none"
       THEN /\ runError' = UnboundLocalError
            /\ UNCHANGED <<client, interrupted, fstate>>
       ELSE /\ client' = "closed"
            /\ interrupted' = Running
            /\ fstate' = [n \in NodeIds |->
                            IF fstate[n] = "Running" THEN "Interrupted"
                            ELSE fstate[n]]
            /\ UNCHANGED runError
    /\ pc' = "done"
    /\ UNCHANGED <<budget, attempts, fails, all_futures,
                   operation_retry_attempts, waiting, recorded>>
    /\ UNCHANGED <<storeVars, auxVars, handling>>

\* The scheduler hands a pending task to a free worker.
StartAttempt(n) ==
    /\ client = "open"
    /\ fstate[n] = "Pending"
    /\ Cardinality(Running) < NWorkers
    /\ fstate' = [fstate EXCEPT ![n] = "Running"]
    /\ attempts' = [attempts EXCEPT ![n] = @ + 1]
    /\ UNCHANGED <<budget, pc, client, fails, all_futures,
                   operation_retry_attempts, waiting, recorded, interrupted,
                   runError>>
    /\ UNCHANGED <<storeVars, auxVars, handling>>

\* execute_node returns on the worker.
FinishAttempt(n) ==
    /\ client = "open"
    /\ fstate[n] = "Running"
    /\ fstate' = [fstate EXCEPT ![n] = "Succeeded"]
    /\ UNCHANGED <<budget, pc, client, attempts, fails, all_futures,
                   operation_retry_attempts, waiting, recorded, interrupted,
                   runError>>
    /\ UNCHANGED <<storeVars, auxVars, handling>>

\* execute_node raises on the worker.
FailAttempt(n) ==
    /\ client = "open"
    /\ fstate[n] = "Running"
    /\ fstate' = [fstate EXCEPT ![n] = "Failed"]
    /\ fails' = [fails EXCEPT ![n] = @ + 1]
    /\ UNCHANGED <<budget, pc, client, attempts, all_futures,
                   operation_retry_attempts, waiting, recorded, interrupted,
                   runError>>
    /\ UNCHANGED <<storeVars, auxVars, handling>>

\* ---------------------------------------------------------------- specs
ExecutorIdle ==
    /\ file = NoFile
    /\ requests = NoRequests
    /\ resolver = ResolverIdle
    /\ budget = 0
    /\ pc = "idle"
    /\ client = "none"
    /\ fstate = [n \in NodeIds |-> "none"]
    /\ attempts = [n \in NodeIds |-> 0]
    /\ fails = [n \in NodeIds |-> 0]
    /\ all_futures = <<>>
    /\ operation_retry_attempts = <<>>
    /\ waiting = {}
    /\ recorded = [n \in NodeIds |-> 0]
    /\ interrupted = {}
    /\ runError = NoError
    /\ handling = NoneKey

RunIdle == ExecutorIdle /\ layout = FreshLayout /\ exec = ExecIdle

\* DAGBuilder.__init__: an empty DiGraph.
Init ==
    /\ nodes = <<>>
    /\ ntype = [n \in NodeIds |-> ""]
    /\ nparams = [n \in NodeIds |-> NoParams]
    /\ succ = [n \in NodeIds |-> <<>>]
    /\ result = "none"
    /\ plan = NoPlan
    /\ RunIdle

Next ==
    \/ \E id \in NodeIds, t \in InputTypes, p \in InputParams : AddNode(id, t, p)
    \/ \E id \in NodeIds : RemoveNode(id)
    \/ \E s \in NodeIds, t \in NodeIds : AddEdge(s, t)
    \/ \E s \in NodeIds, t \in NodeIds : RemoveEdge(s, t)
    \/ Resolve

Spec == Init /\ [][Next]_vars

\* Injective sequences over S: the orders a dict can list keys of S in.
InjSeqs(S) ==
    UNION {{q \in [1..k -> S] : \A i, j \in 1..k : q[i] = q[j] => i = j} :
           k \in 0..Cardinality(S)}

\* Any directed graph handed to resolve_dependencies directly (the function
\* takes any nx.DiGraph, cyclic ones included).
InitResolve ==
    /\ nodes \in InjSeqs(NodeIds)
    /\ ntype = [n \in NodeIds |-> IF n \in Range(nodes) THEN "SMA" ELSE ""]
    /\ nparams = [n \in NodeIds |->
                    IF n \in Range(nodes)
                    THEN _convert_to_internal_parameters(<<>>) ELSE NoParams]
    /\ succ \in [NodeIds -> InjSeqs(Range(nodes))]
    /\ \A n \in NodeIds \ Range(nodes) : succ[n] = <<>>
    /\ result = "none"
    /\ plan = NoPlan
    /\ RunIdle

NextResolve == Resolve

SpecResolve == InitResolve /\ [][NextResolve]_vars

\* A graph built through the store (any acyclic graph on nodes 1..k, added
\* in that order with add_node(n, "SMA", [])), about to be executed.
InitRun ==
    /\ nodes \in {<<>>, <<1>>, <<1, 2>>, <<1, 2, 3>>}
    /\ ntype = [n \in NodeIds |-> IF n \in Range(nodes) THEN "SMA" ELSE ""]
    /\ nparams = [n \in NodeIds |->
                    IF n \in Range(nodes)
                    THEN _convert_to_internal_parameters(<<>>) ELSE NoParams]
    /\ succ \in [NodeIds -> InjSeqs(Range(nodes))]
    /\ \A n \in NodeIds \ Range(nodes) : succ[n] = <<>>
    /\ ~HasCycle(succ)
    /\ result = "ok"
    /\ plan = NoPlan
    /\ RunIdle

NextRun ==
    \/ Resolve /\ plan.status = "none"
    \/ \E b \in 1..MaxBudget : ExecStart(b)
    \/ \E b \in 1..MaxBudget : ExecStartFails(b)
    \/ \E b \in 1..MaxBudget : ExecSubmitFails(b)
    \/ WhileTest
    \/ ForStep
    \/ RetryReturn
    \/ Shutdown
    \/ \E n \in NodeIds : StartAttempt(n)
    \/ \E n \in NodeIds : FinishAttempt(n)
    \/ \E n \in NodeIds : FailAttempt(n)

SpecRun == InitRun /\ [][NextRun]_vars

\* The run under the scheduling the executor relies on: the main thread
\* keeps taking its steps, the scheduler hands every pending task to a
\* worker when one is free, and every attempt returns or raises.
FairRun ==
    /\ WF_vars(WhileTest)
    /\ WF_vars(ForStep)
    /\ WF_vars(RetryReturn)
    /\ WF_vars(Shutdown)
    /\ \A n \in NodeIds : WF_vars(StartAttempt(n))
    /\ \A n \in NodeIds : WF_vars(FinishAttempt(n) \/ FailAttempt(n))

SpecRunFair == SpecRun /\ FairRun

\* The store with its persistence calls.
NextPersist ==
    \/ \E id \in NodeIds, t \in InputTypes, p \in InputParams : AddNode(id, t, p)
    \/ \E id \in NodeIds : RemoveNode(id)
    \/ \E s \in NodeIds, t \in NodeIds : AddEdge(s, t)
    \/ SaveToFile
    \/ LoadFromFile

SpecPersist == Init /\ [][NextPersist]_vars

\* A graph built through the store, its node dict without a hole yet or
\* with its table used up by the holes of nodes removed before; then up to
\* MaxRequests requests, /execute (one at a time) and mutations, all taken
\* step by step.
InitThreads ==
    /\ nodes \in {<<>>, <<1>>, <<1, 2>>}
    /\ ntype = [n \in NodeIds |-> IF n \in Range(nodes) THEN "SMA" ELSE ""]
    /\ nparams = [n \in NodeIds |->
                    IF n \in Range(nodes)
                    THEN _convert_to_internal_parameters(<<>>) ELSE NoParams]
    /\ succ \in [NodeIds -> InjSeqs(Range(nodes))]
    /\ \A n \in NodeIds \ Range(nodes) : succ[n] = <<>>
    /\ ~HasCycle(succ)
    /\ result = "ok"
    /\ plan = NoPlan
    /\ ExecutorIdle
    /\ exec = ExecIdle
    /\ layout \in {FreshLayout, WornLayout}

NextThreads ==
    \/ \E id \in NodeIds : AddNodeTest(id, "SMA", <<>>)
    \/ \E r \in InFlight : AddNodeChange(r, "SMA", <<>>)
    \/ \E id \in NodeIds : RemoveNodeTest(id)
    \/ \E r \in InFlight : RemoveNodeChange(r)
    \/ \E s \in NodeIds, t \in NodeIds : AddEdgeTestSource(s, t)
    \/ \E r \in InFlight : AddEdgeTestTarget(r)
    \/ \E r \in InFlight : AddEdgeInsert(r)
    \/ \E r \in InFlight : AddEdgeScan(r)
    \/ \E r \in InFlight : AddEdgeUndo(r)
    \/ \E s \in NodeIds, t \in NodeIds : RemoveEdgeTest(s, t)
    \/ \E r \in InFlight : RemoveEdgeChange(r)
    \/ ResolveBegin
    \/ IndegNext
    \/ IndegCheck
    \/ IndegRead
    \/ QueueIter
    \/ QueueNext
    \/ LoopNode
    \/ SuccIter
    \/ SuccNext
    \/ ResolveEnd

SpecThreads == InitThreads /\ [][NextThreads]_vars

\* The parameter names a node's dict may have (the registry's names and the
\* key add_node stores), the values, and the node types.
ParamNames ==
    {"columns", "value", "window_size", "column", "high", "low", "close",
     "time_period", "sources"}
ParamValues == {"5", "x"}
NodeTypes == RegisteredTypes \cup {"UNSUPPORTED_TYPE"}

\* Every node_data dict: a type, and a 'parameters' dict or none.
NodeDatas ==
    {[type |-> t, hasParameters |-> TRUE, parameters |-> p] :
        t \in NodeTypes,
        p \in UNION {[K -> ParamValues] : K \in SUBSET ParamNames}}
    \cup {[type |-> t, hasParameters |-> FALSE, parameters |-> <<>>] :
            t \in NodeTypes}

\* execute_node called on any node_data.
InitNode ==
    /\ nodes = <<>>
    /\ ntype = [n \in NodeIds |-> ""]
    /\ nparams = [n \in NodeIds |-> NoParams]
    /\ succ = [n \in NodeIds |-> <<>>]
    /\ result = "none"
    /\ plan = NoPlan
    /\ ExecutorIdle
    /\ layout = FreshLayout
    /\ exec \in {[ExecIdle EXCEPT !.node_data = d] : d \in NodeDatas}

NextNode ==
    \/ \E unitRaises \in BOOLEAN : ExecuteNodeCall(unitRaises)
    \/ ExecuteNodeReturn

SpecNode == InitNode /\ [][NextNode]_vars

\* ================================================================ claims
\* A directed graph has a cycle iff some non-empty set of nodes has, for
\* each of its members, an edge to a member.
HasDirectedCycle ==
    \E S \in SUBSET NodeIds :
        /\ S # {}
        /\ \A u \in S : \E v \in S : <<u, v>> \in Edges(succ)

GraphState == <<nodes, ntype, nparams, succ>>

\* C1: after any sequence of add_node, remove_node, add_edge and remove_edge
\* calls on an initially empty graph, the edge set contains no cycle, and
\* no self-loop.
C1_Acyclic == ~HasDirectedCycle

\* C1 witness: with a single node in the graph an add_edge was rejected for
\* a cycle, which can only have been the self-loop add_edge(a, a).
C1_Witness == result = "Cycle" /\ Len(nodes) = 1

\* C2: an add_node or add_edge call that fails leaves the node sequence,
\* every node's type and parameters, and the edges exactly as they were.
C2_FailedCallKeepsGraph ==
    [][result' \in {"UnsupportedType", "DuplicateNode", "InvalidParameters",
                    "KeyError", "NodeMissing", "Cycle"}
       => GraphState' = GraphState]_vars

\* C2 witness: an add_edge was rejected for a cycle in a graph of three
\* nodes that keeps its two earlier edges.
C2_Witness ==
    result = "Cycle" /\ Len(nodes) = 3 /\ Cardinality(Edges(succ)) = 2

\* C5: in the plan resolved from a graph built through the store, for every
\* edge (u, v) both nodes are in the plan and every position of u is before
\* every position of v.
C5_EdgeOrder ==
    plan.status = "ok" =>
        \A e \in Edges(succ) :
            /\ e[1] \in Range(plan.order)
            /\ e[2] \in Range(plan.order)
            /\ \A i, j \in 1..Len(plan.order) :
                  (plan.order[i] = e[1] /\ plan.order[j] = e[2]) => i < j

\* C5 witness: a plan was resolved from a three-node graph with three edges.
C5_Witness == plan.status = "ok" /\ Cardinality(Edges(succ)) = 3

\* C10: the resolver returns no partial plan: on an acyclic graph the plan
\* lists every node exactly once, on a graph with a cycle the call raises
\* and returns nothing.
C10_NoPartialPlan ==
    plan.status # "none" =>
        IF HasDirectedCycle
        THEN plan.status = "CycleError" /\ plan.order = <<>>
        ELSE /\ plan.status = "ok"
             /\ Len(plan.order) = Len(nodes)
             /\ Range(plan.order) = Range(nodes)

\* C10 witness: the resolver raised on a cyclic graph in which some node had
\* in-degree 0, so that a partial plan had been accumulated.
C10_Witness ==
    /\ plan.status = "CycleError"
    /\ \E n \in Range(nodes) : in_degree(succ, n) = 0

\* ------------------------------------------------------ execution claims
PlanNodes == Range(plan.order)

\* Stage index of a node: the length of the longest path reaching it from a
\* node of in-degree 0.
RECURSIVE Stage(_)
Stage(n) ==
    LET preds == {u \in NodeIds : <<u, n>> \in Edges(succ)}
    IN IF preds = {} THEN 0
       ELSE LET best == CHOOSE u \in preds : \A w \in preds : Stage(w) <= Stage(u)
            IN 1 + Stage(best)

\* C3: for every edge (u, v) no attempt of v has started unless u has
\* succeeded.
C3_PredecessorsFirst ==
    \A e \in Edges(succ) : attempts[e[2]] > 0 => fstate[e[1]] = "Succeeded"

\* C4: a node of stage i+1 starts an attempt only when every node of stage i
\* has reached its terminal outcome (succeeded, or failed with no retry
\* left).
C4_StageBarrier ==
    [][\A m \in NodeIds :
          attempts'[m] > attempts[m] =>
              \A n \in PlanNodes :
                  Stage(n) + 1 = Stage(m) =>
                      \/ fstate[n] = "Succeeded"
                      \/ fstate[n] = "Failed" /\ fails[n] >= budget]_vars

\* C6: when the run has ended and every node failed fewer times than the
\* budget and then succeeded, each node's success was recorded exactly once
\* and the run was not aborted.
C6_RetryThenSuccess ==
    (/\ pc = "done"
     /\ PlanNodes # {}
     /\ \A n \in PlanNodes : fstate[n] = "Succeeded" /\ fails[n] < budget)
    => /\ runError = NoError
       /\ \A n \in PlanNodes : recorded[n] = 1

\* C7: when the run has ended and some node failed as many times as the
\* budget, the run raised the last error of such a node.
C7_ExhaustedAborts ==
    (pc = "done" /\ \E n \in PlanNodes : fails[n] >= budget)
    => \E n \in PlanNodes :
          fails[n] >= budget /\ runError = UnitError(n, fails[n])

\* C8: a failure is terminal only when the node's remaining budget is 0,
\* that is after the initial failure and retry_budget further failures.
C8_TerminalOnlyAtZero ==
    runError.type = "UnitError" =>
        /\ operation_retry_attempts[runError.raisedBy] = 0
        /\ fails[runError.raisedBy] = budget + 1

\* C9: once the run has aborted on an exhausted node no attempt is started
\* and no running attempt is interrupted.
C9_NoStartAfterAbort ==
    [][runError.type = "UnitError" =>
          attempts' = attempts /\ interrupted' = interrupted]_vars

\* ---------------------------------------------------------- store claims
\* C11: add_node with a node type that is not in the registry raises the
\* unsupported-type error and leaves the graph as it was, whatever the id
\* (new or existing) and the parameter list.
C11_UnknownKindRejected ==
    [][\A id \in NodeIds, t \in InputTypes \ RegisteredTypes, p \in InputParams :
          AddNode(id, t, p) =>
              result' = "UnsupportedType" /\ GraphState' = GraphState]_vars

\* C11 witness: an unsupported type was rejected while every id was in the
\* graph, so the call named an existing id.
C11_Witness == result = "UnsupportedType" /\ Len(nodes) = 3

\* A parameter list supplies a required name when one of its entries has
\* that key (a "column" entry counting towards "columns").
Supplies(parameters, name) ==
    \E i \in 1..Len(parameters) :
        \/ parameters[i].k = name
        \/ parameters[i].k = "column" /\ name = "columns"

\* The required names of a node type that a parameter list lacks, in the
\* registry's order.
MissingNames(node_type, parameters) ==
    LET Lacking(name) == ~Supplies(parameters, name)
    IN SelectSeq(function_registry[node_type], Lacking)

\* C12: add_node with a new id, a registered type and a parameter list that
\* lacks a required name of that type fails and does not add the node.
C12_MissingParameterRejected ==
    [][\A id \in NodeIds, t \in InputTypes \cap RegisteredTypes, p \in InputParams :
          (~InGraph(id) /\ MissingNames(t, p) # <<>> /\ AddNode(id, t, p)) =>
              result' # "ok" /\ GraphState' = GraphState]_vars

\* C13: add_node with a new id, type ADD and the parameter list
\* [{"column": "x"}, {"value": 5}] succeeds; afterwards the node is in the
\* graph with type ADD and to_json returns it with the same parameter list.
C13_WellFormedAddSucceeds ==
    [][\A id \in NodeIds :
          LET p == <<Param("column", "str", "x"), Param("value", "num", "5")>>
          IN (~InGraph(id) /\ AddNode(id, "ADD", p)) =>
                /\ result' = "ok"
                /\ id \in Range(nodes')
                /\ ntype'[id] = "ADD"
                /\ LET doc == to_json(nodes', ntype', nparams', succ')
                   IN /\ doc.status = "ok"
                      /\ \E i \in 1..Len(doc.nodes) :
                            doc.nodes[i] = [id |-> id, type |-> "ADD", parameters |-> p]]_vars

\* C14: remove_node(id) on an existing id removes that node and exactly the
\* edges that have it as source or target, and keeps every other node, its
\* attributes and every other edge (in their order); on an absent id it
\* changes nothing; it never raises, and removing the same id again changes
\* nothing more.
C14_RemoveNodeFrame ==
    [][\A id \in NodeIds :
          RemoveNode(id) =>
              LET Other(n) == n # id
              IN /\ result' \in {"NodeRemoved", "NodeNotFound"}
                 /\ IF id \in Range(nodes)
                    THEN /\ nodes' = SelectSeq(nodes, Other)
                         /\ Edges(succ') =
                               {e \in Edges(succ) : e[1] # id /\ e[2] # id}
                         /\ \A n \in NodeIds \ {id} :
                               /\ ntype'[n] = ntype[n]
                               /\ nparams'[n] = nparams[n]
                               /\ succ'[n] = SelectSeq(succ[n], Other)
                    ELSE GraphState' = GraphState
                 /\ id \notin Range(nodes')
                 /\ GraphRemoveNode(succ', id) = succ']_vars

\* C14 witness: a node was removed from a three-node graph and an edge
\* between the two other nodes is still there.
C14_Witness == result = "NodeRemoved" /\ Len(nodes) = 2 /\ Edges(succ) # {}

\* C15: for every graph built through the store, save_to_file succeeds and
\* loading the saved document gives a graph with the same node ids, types,
\* parameters and edges.
C15_SaveLoadRoundTrip ==
    [][SaveToFile =>
          /\ result' = "ok"
          /\ LET g == LoadDocument(file')
             IN /\ g.err = ""
                /\ Range(g.nodes) = Range(nodes)
                /\ \A n \in Range(nodes) :
                      g.ntype[n] = ntype[n] /\ g.nparams[n] = nparams[n]
                /\ Edges(g.succ) = Edges(succ)]_vars

\* The edges add_edge requests have inserted and not yet accepted: the
\* request is before its scan, or before its undo.
TentativeEdges ==
    {<<r.a, r.b>> : r \in {q \in InFlight : /\ q.op = "add_edge"
                                            /\ q.pc \in {"scan", "undo"}
                                            /\ q.fresh}}

\* C16: a reader running while an add_edge is in progress does not observe
\* the tentative edge: /execute neither counts it in the in-degree it reads
\* for a node nor gets it from the iterator over a node's successors.
C16_ReadersNeverSeeTentative ==
    [][/\ IndegRead => \A e \in TentativeEdges : e[2] # resolver.node
       /\ (SuccNext /\ resolver'.pc = "succNext") =>
             <<resolver.node, SuccDict[resolver'.it_pos]>> \notin TentativeEdges
      ]_vars

\* C17: whatever mutations run while /execute resolves, the call ends with
\* the plan of the graph as it was when the call began, and the mutations
\* do not make it fail.
C17_ResolvesSnapshot ==
    [][(resolver.pc # "idle" /\ resolver'.pc = "idle") =>
          plan' = resolve_dependencies(resolver.snapNodes, resolver.snapSucc)]_vars

\* ------------------------------------------------------- executor claims
\* C18: on every exit path of the run the client is released and the release
\* step itself does not fail: a finished run holds no open client and has
\* not ended in the finally clause's own error.
C18_PoolReleased ==
    pc = "done" => client # "open" /\ runError # UnboundLocalError

\* ------------------------------------------------------- resolver claims
\* C19: the plan is a function of the node set and the edge set alone: it
\* lists the nodes by stage and, within a stage, in ascending order of id,
\* whatever the order the nodes and edges were inserted in.
C19_PlanIndependentOfInsertionOrder ==
    plan.status = "ok" =>
        \A i, j \in 1..Len(plan.order) :
            i < j =>
                LET a == plan.order[i]
                    b == plan.order[j]
                IN \/ Stage(a) < Stage(b)
                   \/ Stage(a) = Stage(b) /\ a < b

\* ----------------------------------------------------- execute_node claim
\* C20: an attempt on a node whose type is registered and whose parameters
\* have every required name of that type calls that type's operation
\* function exactly once, with exactly the node's parameters; an attempt on
\* a node with a missing required name or an unregistered type fails and
\* calls no operation function.
C20_AttemptInvokesUnitOnce ==
    exec.status # "none" =>
        LET d == exec.node_data
            complete ==
                /\ d.type \in RegisteredTypes
                /\ d.hasParameters
                /\ \A name \in Range(function_registry[d.type]) :
                      name \in DOMAIN d.parameters
        IN IF complete
           THEN exec.calls = <<[unit |-> d.type, parameters |-> d.parameters]>>
           ELSE exec.calls = <<>> /\ exec.status = "ValueError"

\* C20 witness: an SMA node with both required names and one more was
\* attempted and sma_operation was called.
C20_Witness ==
    /\ exec.status = "ok"
    /\ exec.node_data.type = "SMA"
    /\ DOMAIN exec.node_data.parameters = {"window_size", "column", "sources"}
    /\ Len(exec.calls) = 1

\* ------------------------------------------- store and executor together
\* graph.nodes[node], the node_data resolve_dependencies hands to
\* execute_node for a stored node: its 'type' and its stored 'parameters'
\* dict, whose keys are "sources" and, when a value entry was given, "value".
StoredNodeData(n) ==
    [type |-> ntype[n], hasParameters |-> TRUE,
     parameters |-> [k \in nparams[n].keys |->
                        IF k = "value" THEN nparams[n].value.v ELSE "[]"]]

\* C21: every node stored in the graph passes execute_node's validation of
\* required parameters: an attempt of a stored node reports no missing
\* parameter name.
C21_StoredNodesPassRevalidation ==
    \A n \in Range(nodes) :
        LET attempt == execute_node(StoredNodeData(n), FALSE)
        IN attempt.missing = <<>> /\ attempt.status # "ValueError"

\* ------------------------------------------------------ termination claim
\* The two ways a run may end: it returned with every node of the plan
\* succeeded, or it raised the error of a node's failed attempt.
RunSucceeded ==
    /\ pc = "done"
    /\ runError = NoError
    /\ \A n \in PlanNodes : fstate[n] = "Succeeded"

RunAborted == pc = "done" /\ runError.type = "UnitError"

\* The run ended, in whatever way.
RunEnded == pc = "done"

\* C22: under fair scheduling every run that entered the tracking loop
\* eventually ends, either returned with every node succeeded or raised on
\* a node's failure, whatever the plan, the budget and the pattern of unit
\* failures.
C22_RunTerminates == (pc = "while") ~> (RunSucceeded \/ RunAborted)

\* Under the same scheduling the run does always end.
RunAlwaysEnds == (pc = "while") ~> RunEnded

====
